---------------------------- MODULE Spec2Model ----------------------------
(***************************************************************************)
(* Kokoros text-to-speech pipeline: the chunk planner, the style resolver, *)
(* the per-request synthesis loop (tts_raw_audio / tts), the text, file    *)
(* and stream modes of the command line front end, the startup of the      *)
(* openai server and its inference pool, the phase-shift filter and the    *)
(* symbol table.                                                           *)
(*                                                                         *)
(* Texts and style specifications are sequences of one-character strings,  *)
(* so that split, trim, split_whitespace, split_once and parse are         *)
(* modelled by what they do to the characters.                             *)
(***************************************************************************)
EXTENDS Integers, Sequences, FiniteSets, TLC

VARIABLES
    pc,            \* position of the running operation
    txt,           \* the text handed to the planner / to tts_raw_audio
    max_tokens,    \* the planner's budget
    chunks,        \* Vec<String> returned by split_text_into_chunks
    voices,        \* the style data file on disk
    styles,        \* TTSKoko.styles, the style table
    style_name,    \* the style specification of the request
    mixed,         \* the Result returned by mix_styles
    speed,         \* the speed coefficient of the request
    initial_silence, \* Option<usize>: <<>> is None, <<n>> is Some(n)
    ci,            \* number of chunks of the request the loop has completed
    final_audio,   \* the samples accumulated by tts_raw_audio
    ret,           \* the Result returned by tts_raw_audio
    engineCalls,   \* the calls of model.infer made for the request, in order
    mixCalls,      \* the number of calls of mix_styles made for the request
    file,          \* the output file of tts()
    mode,          \* the subcommand: "text" or "stream"
    input,         \* stream mode: the lines standard input will deliver
    li,            \* stream mode: the number of lines read so far
    events,        \* stream mode: reads, output writes and flushes, in order
    instances,     \* the --instances option
    host_threads,  \* the compute threads the host offers
    tts_instances, \* the TTSKoko instances constructed so far, in order
    server,        \* openai mode: how far the HTTP server has come
    cuda,          \* whether the build has the cuda feature
    owner,         \* pool: the request each instance is assigned to, or 0
    req,           \* pool: the requests, their texts and their progress
    lock,          \* pool: the request holding the dispatch lock, or 0
    save_path_format, \* file mode: the output path format
    save_path,     \* the path tts() writes to
    disk,          \* the audio files on disk, by path
    vocabs,        \* the symbol tables built so far
    phonemes,      \* the phoneme string to filter
    filtered,      \* the phoneme string after filtering, if computed
    shifted        \* the result of apply_phase_shift on a buffer, if computed

planVars == <<txt, max_tokens, chunks>>
styleVars == <<voices, styles, style_name, mixed>>
reqVars == <<speed, initial_silence, ci, final_audio, ret, engineCalls, mixCalls>>
outVars == <<file, mode, input, li, events>>

mainVars == <<instances, host_threads, tts_instances, server, cuda>>
poolVars == <<owner, req, lock>>
fileVars == <<save_path_format, save_path, disk>>
pureVars == <<vocabs, phonemes, filtered, shifted>>
extVars == <<mainVars, poolVars, fileVars, pureVars>>
ttsVars == <<planVars, styleVars, reqVars, outVars>>

vars == <<pc, planVars, styleVars, reqVars, outVars, mainVars, poolVars,
          fileVars, pureVars>>

----------------------------------------------------------------------------
(* Bounds of the model *)

MaxTextLen == 5
MaxBudget == 4
MaxSegs == 2
StyleDim == 2
MaxReqLen == 3
MaxLines == 2
MaxInstances == 3
MaxThreads == 4
MaxRequests == 3
MaxPool == 2
MaxAudioLen == 3
MaxBuilds == 2
MaxPhonemes == 2

(* Program constants *)

PlanBudget == 500

\* the engine's limit: the planning budget and its margin of 12 tokens
EngineLimit == 512

----------------------------------------------------------------------------
(* Characters and texts *)

\* "a" is a short word character, "L" stands for a long stretch of text
\* (it phonemizes to many tokens); " " is whitespace; "." and "?" are two of
\* the four sentence terminators of the planner.
Alphabet == {"a", "L", " ", ".", "?"}

RECURSIVE SeqsUpTo(_, _)
SeqsUpTo(S, n) ==
    IF n = 0 THEN {<<>>}
    ELSE LET shorter == SeqsUpTo(S, n - 1)
         IN shorter \cup {Append(s, c) : s \in {x \in shorter : Len(x) = n - 1}, c \in S}

is_whitespace(c) == c = " "

SentenceEnds == {".", "?", "!", ";"}

RECURSIVE trim_start(_)
trim_start(s) ==
    IF s # <<>> /\ is_whitespace(Head(s)) THEN trim_start(Tail(s)) ELSE s

RECURSIVE trim_end(_)
trim_end(s) ==
    IF s # <<>> /\ is_whitespace(s[Len(s)])
    THEN trim_end(SubSeq(s, 1, Len(s) - 1))
    ELSE s

trim(s) == trim_end(trim_start(s))

\* str::split(pattern): the pieces between separators, empty pieces included
RECURSIVE split(_, _)
split(s, seps) ==
    IF s = <<>> THEN << <<>> >>
    ELSE LET rest == split(Tail(s), seps)
         IN IF Head(s) \in seps
            THEN << <<>> >> \o rest
            ELSE << <<Head(s)>> \o Head(rest) >> \o Tail(rest)

\* str::split_whitespace: the maximal runs of non-whitespace characters
split_whitespace(s) ==
    LET nonempty(p) == p # <<>>
    IN SelectSeq(split(s, {" "}), nonempty)

----------------------------------------------------------------------------
(* The planner's probe: text_to_phonemes(..).join("") then tokenize(..).len() *)

\* Number of in-vocabulary phoneme symbols the phonemizer yields for a
\* character.  The phonemizer is an external collaborator; it is modelled as
\* a deterministic character-wise map.
phoneme_tokens(c) ==
    CASE c = "a" -> 1
      [] c = "L" -> 250
      [] OTHER   -> 1

RECURSIVE token_count(_)
token_count(text) ==
    IF text = <<>> THEN 0
    ELSE phoneme_tokens(Head(text)) + token_count(Tail(text))

exceeds_off_by_one(tokens, budget) == tokens > budget + 1

\* the three budget tests `.. > max_tokens`
exceeds(tokens, budget) == tokens > budget

----------------------------------------------------------------------------
(* TTSKoko::split_text_into_chunks *)

push_if_nonempty(out, chunk) == IF chunk # <<>> THEN Append(out, chunk) ELSE out

\* the inner loop over the words of an over-long sentence
RECURSIVE pack_words(_, _, _, _)
pack_words(words, word_chunk, out, budget) ==
    IF words = <<>> THEN push_if_nonempty(out, word_chunk)
    ELSE LET word == Head(words)
             test_chunk == IF word_chunk = <<>> THEN word
                           ELSE word_chunk \o <<" ">> \o word
         IN IF exceeds(token_count(test_chunk), budget)
            THEN pack_words(Tail(words), word,
                            push_if_nonempty(out, word_chunk), budget)
            ELSE pack_words(Tail(words), test_chunk, out, budget)

\* the outer loop over the sentences, then the final flush
RECURSIVE plan_sentences(_, _, _, _)
plan_sentences(sentences, current_chunk, out, budget) ==
    IF sentences = <<>> THEN push_if_nonempty(out, current_chunk)
    ELSE LET sentence == trim(Head(sentences)) \o <<".">>
             rest == Tail(sentences)
         IN IF exceeds(token_count(sentence), budget)
            THEN plan_sentences(rest, current_chunk,
                     pack_words(split_whitespace(sentence), <<>>, out, budget),
                     budget)
            ELSE IF current_chunk # <<>>
            THEN LET test_text == current_chunk \o <<" ">> \o sentence
                 IN IF exceeds(token_count(test_text), budget)
                    THEN plan_sentences(rest, sentence,
                                        Append(out, current_chunk), budget)
                    ELSE plan_sentences(rest, test_text, out, budget)
            ELSE plan_sentences(rest, sentence, out, budget)

sentences_unfiltered(text) == split(text, SentenceEnds)

sentences_of(text) ==
    LET nonblank(s) == trim(s) # <<>>
    IN SelectSeq(split(text, SentenceEnds), nonblank)

split_text_into_chunks(text, budget) ==
    plan_sentences(sentences_of(text), <<>>, <<>>, budget)

----------------------------------------------------------------------------
(* The style data file and TTSKoko::load_voices *)

\* The style vectors have StyleDim positions (256 in the program; every
\* position is treated alike).  The table keeps, per name, the row [0][0] of
\* the tensor, the only one mix_styles reads.
Positions == 1 .. StyleDim

ZeroRow == [j \in Positions |-> 0]

\* pads a row of the file to the zero-initialised tensor row
tensor_row(row) == [j \in Positions |-> IF j <= Len(row) THEN row[j] ELSE 0]

\* A JSON value of the file: an array (with its row [0][0]) or a non-array.
Arr(row) == [array |-> TRUE, row |-> row]
NotArr == [array |-> FALSE, row |-> <<>>]

EmptyTable == [n \in {} |-> ZeroRow]

NoFile == [readable |-> FALSE, keys |-> {}, obj |-> [n \in {} |-> NotArr]]

VoicesJson ==
    [readable |-> TRUE,
     keys |-> {<<"a">>, <<"b">>, <<"c">>, <<"n">>},
     obj |-> [n \in {<<"a">>, <<"b">>, <<"c">>, <<"n">>} |->
                CASE n = <<"a">> -> Arr(<<1, 0>>)
                  [] n = <<"b">> -> Arr(<<0, 1>>)
                  [] n = <<"c">> -> Arr(<<2>>)
                  [] OTHER -> NotArr]]

VoiceFiles == {NoFile, VoicesJson}

\* the table after load_voices: untouched (empty) when the file cannot be
\* read, else one entry per key whose value is an array
load_voices(json) ==
    IF json.readable
    THEN [n \in {k \in json.keys : json.obj[k].array} |->
             tensor_row(json.obj[n].row)]
    ELSE EmptyTable

----------------------------------------------------------------------------
(* TTSKoko::mix_styles *)

Digits == {"0", "1", "2", "3", "4", "5", "6", "7", "8", "9"}

digit_value(c) ==
    CASE c = "0" -> 0 [] c = "1" -> 1 [] c = "2" -> 2 [] c = "3" -> 3
      [] c = "4" -> 4 [] c = "5" -> 5 [] c = "6" -> 6 [] c = "7" -> 7
      [] c = "8" -> 8 [] c = "9" -> 9

all_digits(s) == \A i \in 1 .. Len(s) : s[i] \in Digits

RECURSIVE decimal(_)
decimal(s) ==
    IF s = <<>> THEN 0
    ELSE decimal(SubSeq(s, 1, Len(s) - 1)) * 10 + digit_value(s[Len(s)])

\* str::parse::<f32> on unsigned decimal literals with at most one
\* fractional digit; the value is returned in tenths (exact arithmetic).
parse_f32(s) ==
    LET parts == split(s, {"."})
    IN IF Len(parts) = 1 /\ s # <<>> /\ all_digits(s)
       THEN [ok |-> TRUE, tenths |-> decimal(s) * 10]
       ELSE IF /\ Len(parts) = 2
               /\ all_digits(parts[1]) /\ all_digits(parts[2])
               /\ Len(parts[1]) + Len(parts[2]) > 0
               /\ Len(parts[2]) <= 1
       THEN [ok |-> TRUE, tenths |-> decimal(parts[1]) * 10 + decimal(parts[2])]
       ELSE [ok |-> FALSE, tenths |-> 0]

contains(s, c) == \E i \in 1 .. Len(s) : s[i] = c

\* str::split_once('.'): the parts before and after the first '.'
split_once(s) ==
    IF contains(s, ".")
    THEN LET i == CHOOSE k \in 1 .. Len(s) :
                      s[k] = "." /\ \A m \in 1 .. k - 1 : s[m] # "."
         IN [some |-> TRUE, name |-> SubSeq(s, 1, i - 1),
             portion |-> SubSeq(s, i + 1, Len(s))]
    ELSE [some |-> FALSE, name |-> <<>>, portion |-> <<>>]

Ok(v) == [ok |-> TRUE, val |-> v]
Err == [ok |-> FALSE, val |-> <<>>]
NoResult == Err

\* the first loop: (name, portion * 0.1) of every segment that has a '.'
\* and a weight that parses; the portion is kept in tenths, so the weight
\* portion * 0.1 is portion-in-tenths / 100
RECURSIVE parsed_segments(_)
parsed_segments(segs) ==
    IF segs = <<>> THEN <<>>
    ELSE LET so == split_once(Head(segs))
             w == parse_f32(so.portion)
         IN (IF so.some /\ w.ok
             THEN << [name |-> so.name, tenths |-> w.tenths] >>
             ELSE <<>>) \o parsed_segments(Tail(segs))

RECURSIVE blend_overwrite(_, _, _)
blend_overwrite(table, parsed, acc) ==
    IF parsed = <<>> THEN acc
    ELSE LET p == Head(parsed)
         IN blend_overwrite(table, Tail(parsed),
                  IF p.name \in DOMAIN table
                  THEN [j \in Positions |-> table[p.name][j] * p.tenths]
                  ELSE acc)

\* the second loop: blended_style[0][j] += style_slice[j] * portion, for the
\* names found in the table.  Values are in hundredths.
RECURSIVE blend(_, _, _)
blend(table, parsed, acc) ==
    IF parsed = <<>> THEN acc
    ELSE LET p == Head(parsed)
         IN blend(table, Tail(parsed),
                  IF p.name \in DOMAIN table
                  THEN [j \in Positions |-> acc[j] + table[p.name][j] * p.tenths]
                  ELSE acc)

mix_styles_lenient(table, spec) ==
    IF ~contains(spec, "+")
    THEN IF spec \in DOMAIN table
         THEN Ok([j \in Positions |-> table[spec][j] * 100])
         ELSE Ok(ZeroRow)
    ELSE Ok(blend(table, parsed_segments(split(spec, {"+"})), ZeroRow))

\* Result<Vec<Vec<f32>>>: the single row of the returned matrix, in
\* hundredths of the table's unit
mix_styles(table, spec) ==
    IF ~contains(spec, "+")
    THEN IF spec \in DOMAIN table
         THEN Ok([j \in Positions |-> table[spec][j] * 100])
         ELSE Err
    ELSE Ok(blend(table, parsed_segments(split(spec, {"+"})), ZeroRow))

----------------------------------------------------------------------------
(* Results, the engine and the output file *)

\* Result<Vec<f32>, Box<dyn Error>> of tts_raw_audio; an Err carries the
\* kind of failure and the chunk it arose at, and no samples
RawOk(audio) == [ok |-> TRUE, val |-> audio, err |-> "", chunk |-> 0]
RawErr(kind, k) == [ok |-> FALSE, val |-> <<>>, err |-> kind, chunk |-> k]
NoRet == [ok |-> FALSE, val |-> <<>>, err |-> "pending", chunk |-> 0]

\* the buffers model.infer may return (the engine is opaque)
EngineBuffers == {<<1>>, <<2, 3>>}

unwrap_or_0(opt) == IF opt = <<>> THEN 0 ELSE opt[1]

\* the length of the token row handed to the engine: the chunk's tokens
\* with initial_silence copies of token 30 inserted in front
call_tokens(chunk, silence) == token_count(chunk) + unwrap_or_0(silence)

NoFileOut == [created |-> FALSE, channels |-> 0, samples |-> <<>>,
              finalized |-> FALSE, phase |-> 0]

\* apply_phase_shift: y = k * x + y1 - k * x1, in exact arithmetic
RECURSIVE phase_filter(_, _, _, _)
phase_filter(audio, k, x1, y1) ==
    IF audio = <<>> THEN <<>>
    ELSE LET x == Head(audio)
             y == k * x + y1 - k * x1
         IN <<y>> \o phase_filter(Tail(audio), k, x, y)

\* the filter with x1 left at its initial value
RECURSIVE stale_filter(_, _, _)
stale_filter(audio, k, y1) ==
    IF audio = <<>> THEN <<>>
    ELSE LET y == k * Head(audio) + y1
         IN <<y>> \o stale_filter(Tail(audio), k, y)

apply_phase_shift_stale_x1(audio, k) == stale_filter(audio, k, 0)

apply_phase_shift(audio, k) == phase_filter(audio, k, 0, 0)

\* the samples tts() writes, in file order
RECURSIVE interleave(_, _)
interleave(left, right) ==
    IF left = <<>> THEN <<>>
    ELSE <<Head(left), Head(right)>> \o interleave(Tail(left), Tail(right))

\* the right channel of a stereo file: the filter unless the shift is 0
right_channel(audio, k) ==
    IF k # 0 THEN apply_phase_shift(audio, k) ELSE audio

wav_samples(audio, mono, k) ==
    IF mono THEN audio
    ELSE interleave(audio, right_channel(audio, k))

PhaseShifts == {-1, 0, 1, 2}

NoShift == [done |-> FALSE, k |-> 0, out |-> <<>>, right |-> <<>>]

----------------------------------------------------------------------------
(* Inputs *)

Texts == SeqsUpTo(Alphabet, MaxTextLen)
Budgets == (1 .. MaxBudget) \cup {PlanBudget}

\* the segments a style specification is built from
Segments ==
    { <<>>, <<"a">>, <<"x">>,
      <<"a", ".", "4">>, <<"b", ".", "6">>, <<"c", ".", "1", "0">>,
      <<"x", ".", "5">>, <<"a", ".", "z">>, <<"b", ".", "1", ".", "5">> }

RECURSIVE JoinedUpTo(_)
JoinedUpTo(n) ==
    IF n = 1 THEN Segments
    ELSE LET shorter == JoinedUpTo(n - 1)
         IN shorter \cup {s \o <<"+">> \o g : s \in shorter, g \in Segments}

StyleSpecs == JoinedUpTo(MaxSegs)

\* requests: texts, and a known name, an unknown name, a blend of known
\* names and a blend of an unknown name with an unparsable weight
ReqTexts == SeqsUpTo(Alphabet, MaxReqLen)
ReqStyles ==
    { <<"a">>, <<"x">>,
      <<"a", ".", "4", "+", "b", ".", "6">>,
      <<"x", ".", "5", "+", "a", ".", "z">> }
Speeds == {1, 2}
Silences == {<<>>, <<13>>}

\* stream mode: the lines of standard input (blank, whitespace only, one
\* chunk, two chunks, a terminator only)
StreamLines ==
    { <<>>, <<" ">>, <<"a">>, <<" ", "L", ".", "L">>, <<".">> }
Inputs == SeqsUpTo(StreamLines, MaxLines)

PlanIdle == txt = <<>> /\ max_tokens = PlanBudget /\ chunks = <<>>
ReqIdle ==
    /\ speed = 1 /\ initial_silence = <<>>
    /\ ci = 0 /\ final_audio = <<>> /\ ret = NoRet
    /\ engineCalls = <<>> /\ mixCalls = 0
OutIdle ==
    /\ file = NoFileOut /\ mode = "text" /\ input = <<>> /\ li = 0
    /\ events = <<>>
MainIdle ==
    /\ instances = 1 /\ host_threads = 1 /\ tts_instances = <<>>
    /\ server = "none" /\ cuda = FALSE
PoolIdle == owner = <<>> /\ req = <<>> /\ lock = 0
\* the text subcommand's output path
TextSavePath == <<"o">>

FileIdle == save_path_format = <<>> /\ save_path = <<>> /\ disk = <<>>
PureIdle ==
    /\ vocabs = <<>> /\ phonemes = <<>> /\ filtered = <<>>
    /\ shifted = NoShift

----------------------------------------------------------------------------
(* TTSKoko::new *)

\* The model is loaded (a failure panics), then the instance starts with an
\* empty table and load_voices fills it.
New ==
    /\ pc = "new"
    /\ \E model_ok \in BOOLEAN :
          IF model_ok
          THEN /\ styles' = load_voices(voices)
               /\ pc' = "ready"
          ELSE /\ styles' = styles
               /\ pc' = "panicked"
    /\ UNCHANGED <<planVars, voices, style_name, mixed, reqVars, outVars,
                   extVars>>

----------------------------------------------------------------------------
(* The planner and the style resolver on their own *)

InitChunk ==
    /\ pc = "plan"
    /\ txt \in Texts
    /\ max_tokens \in Budgets
    /\ chunks = <<>>
    /\ voices = NoFile
    /\ styles = EmptyTable
    /\ style_name = <<>>
    /\ mixed = NoResult
    /\ ReqIdle /\ OutIdle
    /\ MainIdle /\ PoolIdle /\ FileIdle /\ PureIdle

Plan ==
    /\ pc = "plan"
    /\ chunks' = split_text_into_chunks(txt, max_tokens)
    /\ pc' = "planned"
    /\ UNCHANGED <<txt, max_tokens, styleVars, reqVars, outVars,
                   extVars>>

NextChunk == Plan

SpecChunk == InitChunk /\ [][NextChunk]_vars

InitStyle ==
    /\ pc = "new"
    /\ voices \in VoiceFiles
    /\ style_name \in StyleSpecs
    /\ styles = EmptyTable
    /\ mixed = NoResult
    /\ PlanIdle /\ ReqIdle /\ OutIdle
    /\ MainIdle /\ PoolIdle /\ FileIdle /\ PureIdle

MixStyles ==
    /\ pc = "ready"
    /\ mixed' = mix_styles(styles, style_name)
    /\ pc' = "mixed"
    /\ UNCHANGED <<planVars, voices, styles, style_name, reqVars, outVars,
                   extVars>>

NextStyle == New \/ MixStyles

SpecStyle == InitStyle /\ [][NextStyle]_vars

----------------------------------------------------------------------------
(* TTSKoko::tts_raw_audio *)

\* lines 195-196: plan the chunks, start with no audio
RawStart ==
    /\ pc = "raw_start"
    /\ max_tokens' = PlanBudget
    /\ chunks' = split_text_into_chunks(txt, PlanBudget)
    /\ final_audio' = <<>>
    /\ ci' = 0
    /\ ret' = NoRet
    /\ engineCalls' = <<>>
    /\ mixCalls' = 0
    /\ mixed' = NoResult
    /\ pc' = "resolve"
    /\ UNCHANGED <<txt, voices, styles, style_name, speed, initial_silence,
                   outVars,
                   extVars>>

after_resolve_ignoring_error(result) == "loop"

\* `self.mix_styles(style_name)?`: an Err returns at once
after_resolve(result) == IF result.ok THEN "loop" ELSE "returned"

\* line 199
RawResolve ==
    /\ pc = "resolve"
    /\ mixed' = mix_styles(styles, style_name)
    /\ mixCalls' = mixCalls + 1
    /\ pc' = after_resolve(mixed')
    /\ ret' = IF mixed'.ok THEN ret ELSE RawErr("style", 0)
    /\ UNCHANGED <<planVars, voices, styles, style_name, speed,
                   initial_silence, ci, final_audio, engineCalls, outVars,
                   extVars>>

extend_replacing(audio, chunk_audio) == chunk_audio

\* final_audio.extend_from_slice(&chunk_audio)
extend_from_slice(audio, chunk_audio) == audio \o chunk_audio

after_engine_error_skipping(k) == "loop"

\* the Err arm of the match on model.infer: return Err
after_engine_error(k) == "returned"

\* lines 201-227, one iteration: phonemize the chunk (an error returns),
\* build the tokens, call the engine, append its samples or return Err
RawChunk ==
    /\ pc = "loop"
    /\ ci < Len(chunks)
    /\ LET k == ci + 1
           call(out) == [chunk |-> k,
                         tokens |-> call_tokens(chunks[k], initial_silence),
                         style |-> mixed.val,
                         speed |-> speed,
                         ok |-> out # <<>>,
                         out |-> out]
       IN \/ \* text_to_phonemes fails
             /\ ret' = RawErr("phonemize", k)
             /\ pc' = "returned"
             /\ UNCHANGED <<ci, final_audio, engineCalls>>
          \/ \* the engine fails
             /\ engineCalls' = Append(engineCalls, call(<<>>))
             /\ pc' = after_engine_error(k)
             /\ ret' = IF pc' = "returned" THEN RawErr("engine", k) ELSE ret
             /\ ci' = IF pc' = "returned" THEN ci ELSE k
             /\ UNCHANGED final_audio
          \/ \* the engine returns a buffer
             \E chunk_audio \in EngineBuffers :
                /\ engineCalls' = Append(engineCalls, call(chunk_audio))
                /\ final_audio' = extend_from_slice(final_audio, chunk_audio)
                /\ ci' = k
                /\ UNCHANGED <<pc, ret>>
    /\ UNCHANGED <<planVars, styleVars, speed, initial_silence, mixCalls,
                   outVars,
                   extVars>>

\* line 229
RawReturn ==
    /\ pc = "loop"
    /\ ci = Len(chunks)
    /\ ret' = RawOk(final_audio)
    /\ pc' = "returned"
    /\ UNCHANGED <<planVars, styleVars, speed, initial_silence, ci,
                   final_audio, engineCalls, mixCalls, outVars,
                   extVars>>

----------------------------------------------------------------------------
(* TTSKoko::tts, called once by the text subcommand *)

\* line 245: the call of tts_raw_audio
TtsCall ==
    /\ pc = "ready"
    /\ mode = "text"
    /\ pc' = "raw_start"
    /\ UNCHANGED <<planVars, styleVars, reqVars, outVars,
                   extVars>>

after_raw_ignoring_error(result) == "create"

\* `self.tts_raw_audio(..)?`: an Err leaves tts before the file is touched
after_raw(result) == IF result.ok THEN "create" ELSE "exit_err"

TtsReturned ==
    /\ pc = "returned"
    /\ mode \in {"text", "file"}
    /\ pc' = after_raw(ret)
    /\ UNCHANGED <<planVars, styleVars, reqVars, outVars,
                   extVars>>

\* what is on disk at `path` once tts() has written `f` there for the line
\* numbered `n` (0 in text mode)
written(fs, path, n, f) == (path :> [writer |-> n, file |-> f]) @@ fs

\* lines 248-256: WavWriter::create with 1 or 2 channels (may fail)
TtsCreate ==
    /\ pc = "create"
    /\ \E mono \in BOOLEAN, io_ok \in BOOLEAN :
          IF io_ok
          THEN /\ file' = [created |-> TRUE,
                           channels |-> IF mono THEN 1 ELSE 2,
                           samples |-> <<>>, finalized |-> FALSE,
                           phase |-> 0]
               /\ disk' = written(disk, save_path, li, file')
               /\ pc' = "write"
          ELSE /\ file' = file
               /\ disk' = disk
               /\ pc' = "exit_err"
    /\ UNCHANGED <<planVars, styleVars, reqVars, mode, input, li, events,
                   mainVars, poolVars, save_path_format, save_path,
                   pureVars>>

\* tts() returned Ok: the text subcommand is done, the file subcommand
\* goes on with the next line
after_tts_ok(m) == IF m = "file" THEN "file_loop" ELSE "exit_ok"

\* lines 258-280: the samples, then finalize (a failed write leaves the
\* file as created)
TtsWrite ==
    /\ pc = "write"
    /\ \E k \in PhaseShifts, io_ok \in BOOLEAN :
          IF io_ok
          THEN /\ file' = [file EXCEPT
                             !.samples = wav_samples(ret.val, file.channels = 1, k),
                             !.finalized = TRUE,
                             !.phase = k]
               /\ disk' = written(disk, save_path, li, file')
               /\ pc' = after_tts_ok(mode)
          ELSE /\ file' = file
               /\ disk' = disk
               /\ pc' = "exit_err"
    /\ UNCHANGED <<planVars, styleVars, reqVars, mode, input, li, events,
                   mainVars, poolVars, save_path_format, save_path,
                   pureVars>>

----------------------------------------------------------------------------
(* The text subcommand: one instance, one call of tts *)

Init ==
    /\ pc = "new"
    /\ txt \in ReqTexts
    /\ style_name \in ReqStyles
    /\ voices \in VoiceFiles
    /\ speed \in Speeds
    /\ initial_silence \in Silences
    /\ max_tokens = PlanBudget /\ chunks = <<>>
    /\ styles = EmptyTable /\ mixed = NoResult
    /\ ci = 0 /\ final_audio = <<>> /\ ret = NoRet
    /\ engineCalls = <<>> /\ mixCalls = 0
    /\ OutIdle
    /\ save_path_format = <<>> /\ save_path = TextSavePath /\ disk = <<>>
    /\ MainIdle /\ PoolIdle /\ PureIdle

Next ==
    \/ New
    \/ TtsCall
    \/ RawStart
    \/ RawResolve
    \/ RawChunk
    \/ RawReturn
    \/ TtsReturned
    \/ TtsCreate
    \/ TtsWrite

Spec == Init /\ [][Next]_vars

----------------------------------------------------------------------------
(* The stream subcommand: a header, then one block of samples per line *)

Event(op, line, audio) == [op |-> op, line |-> line, audio |-> audio]

is_blank_untrimmed(line) == line = <<>>

\* `line.trim().is_empty()`
is_blank(line) == trim(line) = <<>>

after_line_error_exits == "exit_err"

\* the Err arm of the loop: eprintln, then the next line
after_line_error == "read"

\* header.write_header(&mut stdout)?
StreamHeader ==
    /\ pc = "ready"
    /\ mode = "stream"
    /\ \E io_ok \in BOOLEAN :
          IF io_ok
          THEN /\ events' = Append(events, Event("header", 0, <<>>))
               /\ pc' = "flush_header"
          ELSE /\ events' = Append(events, Event("io_error", 0, <<>>))
               /\ pc' = "exit_err"
    /\ UNCHANGED <<planVars, styleVars, reqVars, file, mode, input, li,
                   extVars>>

\* stdout.flush()? after the header
StreamFlushHeader ==
    /\ pc = "flush_header"
    /\ \E io_ok \in BOOLEAN :
          IF io_ok
          THEN /\ events' = Append(events, Event("flush", 0, <<>>))
               /\ pc' = "read"
          ELSE /\ events' = Append(events, Event("io_error", 0, <<>>))
               /\ pc' = "exit_err"
    /\ UNCHANGED <<planVars, styleVars, reqVars, file, mode, input, li,
                   extVars>>

\* lines.next_line().await?: a line (blank lines are skipped), the end of
\* the input, or a read error
StreamRead ==
    /\ pc = "read"
    /\ \/ /\ li < Len(input)
          /\ li' = li + 1
          /\ events' = Append(events, Event("read", li + 1, <<>>))
          /\ IF is_blank(input[li + 1])
             THEN pc' = "read" /\ txt' = txt
             ELSE pc' = "raw_start" /\ txt' = trim(input[li + 1])
       \/ /\ li = Len(input)
          /\ pc' = "exit_ok"
          /\ UNCHANGED <<li, events, txt>>
       \/ /\ pc' = "exit_err"
          /\ events' = Append(events, Event("io_error", li, <<>>))
          /\ UNCHANGED <<li, txt>>
    /\ UNCHANGED <<max_tokens, chunks, styleVars, reqVars, file, mode, input,
                   extVars>>

\* Ok(raw_audio): write_audio_chunk(&mut stdout, &raw_audio)?
StreamWrite ==
    /\ pc = "returned"
    /\ mode = "stream"
    /\ ret.ok
    /\ \E io_ok \in BOOLEAN :
          IF io_ok
          THEN /\ events' = Append(events, Event("block", li, ret.val))
               /\ pc' = "flush"
          ELSE /\ events' = Append(events, Event("io_error", li, <<>>))
               /\ pc' = "exit_err"
    /\ UNCHANGED <<planVars, styleVars, reqVars, file, mode, input, li,
                   extVars>>

\* stdout.flush()? after the block
StreamFlush ==
    /\ pc = "flush"
    /\ \E io_ok \in BOOLEAN :
          IF io_ok
          THEN /\ events' = Append(events, Event("flush", li, <<>>))
               /\ pc' = "read"
          ELSE /\ events' = Append(events, Event("io_error", li, <<>>))
               /\ pc' = "exit_err"
    /\ UNCHANGED <<planVars, styleVars, reqVars, file, mode, input, li,
                   extVars>>

\* Err(e): eprintln!("Error processing line: ..")
StreamError ==
    /\ pc = "returned"
    /\ mode = "stream"
    /\ ~ret.ok
    /\ events' = Append(events, Event("eprint", li, <<>>))
    /\ pc' = after_line_error
    /\ UNCHANGED <<planVars, styleVars, reqVars, file, mode, input, li,
                   extVars>>

InitStream ==
    /\ pc = "new"
    /\ mode = "stream"
    /\ input \in Inputs
    /\ style_name \in ReqStyles
    /\ voices \in VoiceFiles
    /\ speed = 1 /\ initial_silence = <<>>
    /\ PlanIdle
    /\ styles = EmptyTable /\ mixed = NoResult
    /\ ci = 0 /\ final_audio = <<>> /\ ret = NoRet
    /\ engineCalls = <<>> /\ mixCalls = 0
    /\ file = NoFileOut /\ li = 0 /\ events = <<>>
    /\ MainIdle /\ PoolIdle /\ FileIdle /\ PureIdle

NextStream ==
    \/ New
    \/ StreamHeader
    \/ StreamFlushHeader
    \/ StreamRead
    \/ RawStart
    \/ RawResolve
    \/ RawChunk
    \/ RawReturn
    \/ StreamWrite
    \/ StreamFlush
    \/ StreamError

SpecStream == InitStream /\ [][NextStream]_vars

----------------------------------------------------------------------------
(* The file subcommand: one call of tts per non-blank line of the file *)

\* the lines of the input file (whitespace only, one chunk, two chunks)
FileLines == {<<" ">>, <<"a">>, <<"L", ".", "L">>}
FileInputs == SeqsUpTo(FileLines, MaxLines)

\* a known and an unknown style name
FileStyles == {<<"a">>, <<"x">>}

\* an output path format: literal characters and the placeholder {line}
Formats == {<<"o", "{line}">>, <<"o">>}

DigitChars == <<"0", "1", "2", "3", "4", "5", "6", "7", "8", "9">>

\* i.to_string()
RECURSIVE to_string(_)
to_string(n) ==
    IF n < 10 THEN <<DigitChars[n + 1]>>
    ELSE to_string(n \div 10) \o <<DigitChars[(n % 10) + 1]>>

\* save_path_format.replace("{line}", s)
RECURSIVE replace_line(_, _)
replace_line(format, s) ==
    IF format = <<>> THEN <<>>
    ELSE (IF Head(format) = "{line}" THEN s ELSE <<Head(format)>>)
         \o replace_line(Tail(format), s)

line_number_one_based(n) == n

\* enumerate(): the n-th line read has index n - 1
line_number(n) == n - 1

\* fs::read_to_string(input_path)?
FileOpen ==
    /\ pc = "ready"
    /\ mode = "file"
    /\ \E io_ok \in BOOLEAN :
          pc' = IF io_ok THEN "file_loop" ELSE "exit_err"
    /\ UNCHANGED <<planVars, styleVars, reqVars, outVars, extVars>>

\* one step of `for (i, line) in file_content.lines().enumerate()`: a
\* blank line is skipped, another one is handed to tts() with its path
FileNext ==
    /\ pc = "file_loop"
    /\ IF li < Len(input)
       THEN /\ li' = li + 1
            /\ IF is_blank(input[li + 1])
               THEN UNCHANGED <<pc, txt, save_path>>
               ELSE /\ txt' = trim(input[li + 1])
                    /\ save_path' =
                          replace_line(save_path_format,
                                       to_string(line_number(li + 1)))
                    /\ pc' = "raw_start"
       ELSE /\ pc' = "exit_ok"
            /\ UNCHANGED <<li, txt, save_path>>
    /\ UNCHANGED <<max_tokens, chunks, styleVars, reqVars, file, mode, input,
                   events, mainVars, poolVars, save_path_format, disk,
                   pureVars>>

InitFile ==
    /\ pc = "new"
    /\ mode = "file"
    /\ input \in FileInputs
    /\ save_path_format \in Formats
    /\ save_path = <<>> /\ disk = <<>>
    /\ style_name \in FileStyles
    /\ voices \in VoiceFiles
    /\ speed = 1 /\ initial_silence = <<>>
    /\ PlanIdle
    /\ styles = EmptyTable /\ mixed = NoResult
    /\ ci = 0 /\ final_audio = <<>> /\ ret = NoRet
    /\ engineCalls = <<>> /\ mixCalls = 0
    /\ file = NoFileOut /\ li = 0 /\ events = <<>>
    /\ MainIdle /\ PoolIdle /\ PureIdle

NextFile ==
    \/ New
    \/ FileOpen
    \/ FileNext
    \/ RawStart
    \/ RawResolve
    \/ RawChunk
    \/ RawReturn
    \/ TtsReturned
    \/ TtsCreate
    \/ TtsWrite

SpecFile == InitFile /\ [][NextFile]_vars

----------------------------------------------------------------------------
(* Statements about a request: tts_raw_audio and tts *)

AfterRaw == {"returned", "create", "write", "exit_ok", "exit_err"}

\* a text made only of whitespace and sentence terminators (or empty)
blank_text(t) == \A i \in 1 .. Len(t) : t[i] \in {" ", ".", "?", "!", ";"}

\* C3 as stated: for a blank text there are no chunks, no engine call and no
\* error, whatever the style specification is.
C3_BlankTextNeverFails ==
    (blank_text(txt) /\ pc \in AfterRaw) =>
        /\ chunks = <<>>
        /\ engineCalls = <<>>
        /\ ret.ok

\* C3 amended: for a blank text there are no chunks and no engine call; the
\* request returns Ok with no samples when the style specification
\* resolves, and the style error when it does not.
C3_BlankTextNoEngineCall ==
    blank_text(txt) =>
        /\ engineCalls = <<>>
        /\ pc \in AfterRaw =>
              /\ chunks = <<>>
              /\ mixCalls = 1
              /\ ret = IF mixed.ok THEN RawOk(<<>>) ELSE RawErr("style", 0)

\* a text of whitespace and terminators, synthesized to zero samples
C3_Witness ==
    /\ pc = "returned"
    /\ txt = <<" ", ".", "?">>
    /\ chunks = <<>>
    /\ ret = RawOk(<<>>)

\* C6: with the style data file unreadable the table stays empty, every
\* call of mix_styles fails and no engine call is made.
C6_MissingDataAlwaysFails ==
    (~voices.readable /\ pc \notin {"new", "panicked"}) =>
        /\ styles = EmptyTable
        /\ mixCalls > 0 => ~mixed.ok
        /\ engineCalls = <<>>

\* C7: mix_styles is called once per request, before any engine call; when
\* it fails the request fails with no engine call; every engine call of the
\* request gets the resolved vector and the request's speed.
C7_StyleResolvedOnceFirst ==
    /\ mixCalls <= 1
    /\ engineCalls # <<>> => (mixCalls = 1 /\ mixed.ok)
    /\ (mixCalls = 1 /\ ~mixed.ok) =>
           /\ engineCalls = <<>>
           /\ pc \in AfterRaw
           /\ ret = RawErr("style", 0)
    /\ pc \in AfterRaw => mixCalls = 1
    /\ \A i \in 1 .. Len(engineCalls) :
           /\ engineCalls[i].style = mixed.val
           /\ engineCalls[i].style = engineCalls[1].style
           /\ engineCalls[i].speed = speed

\* two chunks inferred with the blend 0.4 a + 0.6 b at speed 2
C7_Witness ==
    /\ Len(engineCalls) = 2
    /\ mixCalls = 1
    /\ speed = 2
    /\ engineCalls[2].style = [j \in Positions |-> IF j = 1 THEN 40
                                                   ELSE IF j = 2 THEN 60 ELSE 0]

\* C8: a failed chunk ends the loop (no later chunk reaches the engine), the
\* Err carries no samples, and the output file exists only when every chunk
\* of the request succeeded.
C8_FailureIsAtomic ==
    /\ (pc \in AfterRaw /\ ~ret.ok) =>
           /\ ret.val = <<>>
           /\ ~file.created
           /\ pc \in {"returned", "exit_err"}
    /\ ret.err \in {"phonemize", "engine"} =>
           /\ ci = ret.chunk - 1
           /\ \A i \in 1 .. Len(engineCalls) : engineCalls[i].chunk <= ret.chunk
           /\ Len(engineCalls) =
                  IF ret.err = "engine" THEN ret.chunk ELSE ret.chunk - 1
    /\ file.created =>
           /\ ret.ok
           /\ Len(engineCalls) = Len(chunks)
           /\ \A i \in 1 .. Len(engineCalls) :
                  engineCalls[i].chunk = i /\ engineCalls[i].ok

\* the engine failed on the second chunk after the first produced samples
C8_Witness ==
    /\ pc = "exit_err"
    /\ ret = RawErr("engine", 2)
    /\ final_audio # <<>>
    /\ ~file.created

----------------------------------------------------------------------------
(* main: the instances each subcommand constructs, and the openai server *)

Modes == {"text", "file", "stream", "openai"}

\* OrtBase::load_model: the session configuration.  An intra-op thread
\* count of 0 is the builder's default: load_model never sets it.
load_model(is_cuda) ==
    IF ~is_cuda
    THEN [provider |-> "cpu", omp_num_threads |-> 1, inter_threads |-> 1,
          intra_threads |-> 0, parallel_execution |-> FALSE]
    ELSE [provider |-> "cuda", omp_num_threads |-> 0, inter_threads |-> 1,
          intra_threads |-> 0, parallel_execution |-> FALSE]

\* TTSKoko::new(model_path, data_path, total): the instance it returns
TTSKoko_new(total) == [total |-> total, session |-> load_model(cuda)]

\* main passes the literal 1 to TTSKoko::new in the three CLI modes
cli_instance_count(n) == 1

server_instance_count_single(n) == 1

\* and `instances` in the openai mode
server_instance_count(n) == n

\* lines 306-316, a CLI mode: one instance (a failed load panics)
MainCli ==
    /\ pc = "main"
    /\ mode # "openai"
    /\ \E model_ok \in BOOLEAN :
          IF model_ok
          THEN /\ tts_instances' =
                     Append(tts_instances,
                            TTSKoko_new(cli_instance_count(instances)))
               /\ pc' = "mode_body"
          ELSE /\ tts_instances' = tts_instances
               /\ pc' = "panicked"
    /\ UNCHANGED <<ttsVars, instances, host_threads, server, cuda, poolVars,
                   fileVars, pureVars>>

\* lines 307-308 and 362: tts is None, the openai branch is entered
MainOpenAI ==
    /\ pc = "main"
    /\ mode = "openai"
    /\ pc' = "server_loop"
    /\ UNCHANGED <<ttsVars, mainVars, poolVars, fileVars, pureVars>>

pool_complete_one_short(built, n) == built + 1 >= n

\* `for i in 0..instances`: the loop ends after `instances` iterations
pool_complete(built, n) == built >= n

\* lines 372-376, one iteration (a failed load panics)
ServerNew ==
    /\ pc = "server_loop"
    /\ ~pool_complete(Len(tts_instances), instances)
    /\ \E model_ok \in BOOLEAN :
          IF model_ok
          THEN /\ tts_instances' =
                     Append(tts_instances,
                            TTSKoko_new(server_instance_count(instances)))
               /\ pc' = pc
          ELSE /\ tts_instances' = tts_instances
               /\ pc' = "panicked"
    /\ UNCHANGED <<ttsVars, instances, host_threads, server, cuda, poolVars,
                   fileVars, pureVars>>

\* line 377: create_server(tts_instances, speed)
ServerCreate ==
    /\ pc = "server_loop"
    /\ pool_complete(Len(tts_instances), instances)
    /\ server' = "created"
    /\ pc' = "bind"
    /\ UNCHANGED <<ttsVars, instances, host_threads, tts_instances, cuda,
                   poolVars, fileVars, pureVars>>

\* line 379: TcpListener::bind(&addr).await?
ServerBind ==
    /\ pc = "bind"
    /\ \E io_ok \in BOOLEAN :
          IF io_ok
          THEN server' = "bound" /\ pc' = "serve"
          ELSE server' = server /\ pc' = "exit_err"
    /\ UNCHANGED <<ttsVars, instances, host_threads, tts_instances, cuda,
                   poolVars, fileVars, pureVars>>

\* line 382: serve(binding, app) accepts requests from here on
ServerServe ==
    /\ pc = "serve"
    /\ server' = "serving"
    /\ pc' = "serving"
    /\ UNCHANGED <<ttsVars, instances, host_threads, tts_instances, cuda,
                   poolVars, fileVars, pureVars>>

InitMain ==
    /\ pc = "main"
    /\ mode \in Modes
    /\ instances \in 0 .. MaxInstances
    /\ host_threads \in 1 .. MaxThreads
    /\ cuda \in BOOLEAN
    /\ tts_instances = <<>> /\ server = "none"
    /\ file = NoFileOut /\ input = <<>> /\ li = 0 /\ events = <<>>
    /\ voices = NoFile /\ styles = EmptyTable /\ style_name = <<>>
    /\ mixed = NoResult
    /\ PlanIdle /\ ReqIdle /\ PoolIdle /\ FileIdle /\ PureIdle

NextMain ==
    \/ MainCli
    \/ MainOpenAI
    \/ ServerNew
    \/ ServerCreate
    \/ ServerBind
    \/ ServerServe

SpecMain == InitMain /\ [][NextMain]_vars

----------------------------------------------------------------------------
(* The inference pool of the server: N instances, requests dispatched to   *)
(* them one at a time under a single lock.                                 *)

PoolTexts == {"a", "b"}

\* the engine's audio is determined by the text it is given
engine_audio(text) == <<text>>

NoOwner == [req |-> 0, text |-> ""]

is_free_unchecked(own, i) == TRUE

\* an instance is free when no request is assigned to it
is_free(own, i) == own[i].req = 0

\* a request arrives and waits for an instance
PoolSubmit(r) ==
    /\ pc = "pool"
    /\ req[r].state = "new"
    /\ req' = [req EXCEPT ![r].state = "waiting"]
    /\ UNCHANGED <<pc, ttsVars, mainVars, owner, lock, fileVars, pureVars>>

\* the single mutual-exclusion point of a dispatch decision
PoolAcquire(r) ==
    /\ pc = "pool"
    /\ req[r].state = "waiting"
    /\ lock = 0
    /\ lock' = r
    /\ UNCHANGED <<pc, ttsVars, mainVars, owner, req, fileVars, pureVars>>

\* the decision: a free instance is assigned to the request; when every
\* instance is busy the request keeps waiting
PoolDispatch(r) ==
    /\ pc = "pool"
    /\ lock = r
    /\ lock' = 0
    /\ IF \E i \in DOMAIN owner : is_free(owner, i)
       THEN \E i \in DOMAIN owner :
               /\ is_free(owner, i)
               /\ owner' = [owner EXCEPT
                               ![i] = [req |-> r, text |-> req[r].text]]
               /\ req' = [req EXCEPT ![r].state = "assigned",
                                      ![r].inst = i]
       ELSE UNCHANGED <<owner, req>>
    /\ UNCHANGED <<pc, ttsVars, mainVars, fileVars, pureVars>>

\* the instance starts the inference call of its request
PoolInferStart(r) ==
    /\ pc = "pool"
    /\ req[r].state = "assigned"
    /\ req' = [req EXCEPT ![r].state = "running"]
    /\ UNCHANGED <<pc, ttsVars, mainVars, owner, lock, fileVars, pureVars>>

\* the call runs to completion: the audio of the text the instance holds
\* goes back to the request, and the instance is free again
PoolInferEnd(r) ==
    /\ pc = "pool"
    /\ req[r].state = "running"
    /\ LET i == req[r].inst
       IN /\ req' = [req EXCEPT ![r].state = "done",
                                 ![r].audio = engine_audio(owner[i].text)]
          /\ owner' = [owner EXCEPT ![i] = NoOwner]
    /\ UNCHANGED <<pc, ttsVars, mainVars, lock, fileVars, pureVars>>

InitPool ==
    /\ pc = "pool"
    /\ mode = "openai"
    /\ instances \in 1 .. MaxPool
    /\ host_threads = 1 /\ cuda = FALSE
    /\ tts_instances = [i \in 1 .. instances |-> TTSKoko_new(instances)]
    /\ server = "serving"
    /\ owner = [i \in 1 .. instances |-> NoOwner]
    /\ \E texts \in [1 .. MaxRequests -> PoolTexts] :
          req = [r \in 1 .. MaxRequests |->
                   [text |-> texts[r], state |-> "new", inst |-> 0,
                    audio |-> <<>>]]
    /\ lock = 0
    /\ file = NoFileOut /\ input = <<>> /\ li = 0 /\ events = <<>>
    /\ voices = NoFile /\ styles = EmptyTable /\ style_name = <<>>
    /\ mixed = NoResult
    /\ PlanIdle /\ ReqIdle /\ FileIdle /\ PureIdle

NextPool ==
    \E r \in DOMAIN req :
        \/ PoolSubmit(r)
        \/ PoolAcquire(r)
        \/ PoolDispatch(r)
        \/ PoolInferStart(r)
        \/ PoolInferEnd(r)

SpecPool == InitPool /\ [][NextPool]_vars

----------------------------------------------------------------------------
(* apply_phase_shift and the right channel of tts() on their own *)

Samples == {-1, 0, 1, 2}
AudioBuffers == SeqsUpTo(Samples, MaxAudioLen)

\* the filter and the right channel tts() writes, for one buffer and shift
ApplyPhaseShift ==
    /\ pc = "phase"
    /\ \E k \in PhaseShifts :
          shifted' = [done |-> TRUE, k |-> k,
                      out |-> apply_phase_shift(final_audio, k),
                      right |-> right_channel(final_audio, k)]
    /\ pc' = "shifted"
    /\ UNCHANGED <<ttsVars, mainVars, poolVars, fileVars, vocabs, phonemes,
                   filtered>>

InitPhase ==
    /\ pc = "phase"
    /\ final_audio \in AudioBuffers
    /\ speed = 1 /\ initial_silence = <<>> /\ ci = 0 /\ ret = NoRet
    /\ engineCalls = <<>> /\ mixCalls = 0
    /\ voices = NoFile /\ styles = EmptyTable /\ style_name = <<>>
    /\ mixed = NoResult
    /\ PlanIdle /\ OutIdle /\ MainIdle /\ PoolIdle /\ FileIdle /\ PureIdle

NextPhase == ApplyPhaseShift

SpecPhase == InitPhase /\ [][NextPhase]_vars

----------------------------------------------------------------------------
(* get_vocab: the symbol table, and filtering a phoneme string by it *)

\* The four strings get_vocab concatenates, shortened: "<" and ">" stand
\* for the guillemets, "@" and "i" for IPA letters, "|" for the combining
\* mark.  As in the source, the double quote occurs three times in the
\* punctuation and the apostrophe twice in the IPA letters.
pad == <<"$">>
punctuation == <<";", "\"", "<", ">", "\"", "\"", " ">>
letters == <<"A", "a">>
letters_ipa == <<"@", "'", "|", "'", "i">>
symbols == pad \o punctuation \o letters \o letters_ipa

SymbolChars == {symbols[i] : i \in DOMAIN symbols}

\* symbols.chars().enumerate(): the pairs (idx, c), idx from 0
enumerate == [i \in DOMAIN symbols |-> [idx |-> i - 1, c |-> symbols[i]]]

\* .map(|(idx, c)| (c, idx)).collect(): the pairs are inserted in the
\* order the first map yields them, a later pair replacing an earlier one
\* with the same character
RECURSIVE collect(_, _)
collect(pairs, table) ==
    IF pairs = <<>> THEN table
    ELSE LET e == Head(pairs)
             next == [c \in DOMAIN table \cup {e.c} |->
                        IF c = e.c THEN e.idx ELSE table[c]]
         IN collect(Tail(pairs), next)

occurrences(c) == {i \in DOMAIN symbols : symbols[i] = c}
Repeated == {c \in SymbolChars : Cardinality(occurrences(c)) > 1}

\* The first map is a HashMap keyed by idx: the order in which it yields
\* its pairs is not fixed.  Enough orders to produce every table: the
\* source order, with one occurrence of each repeated character moved to
\* the end.
LastChoices ==
    {ch \in [Repeated -> DOMAIN symbols] :
        \A c \in Repeated : ch[c] \in occurrences(c)}

iteration_order(ch) ==
    LET last == {ch[c] : c \in Repeated}
        is_first(e) == (e.idx + 1) \notin last
        is_last(e) == (e.idx + 1) \in last
    IN SelectSeq(enumerate, is_first) \o SelectSeq(enumerate, is_last)

IterationOrders == {iteration_order(ch) : ch \in LastChoices}

get_vocab(order) == collect(order, <<>>)

\* chars().filter(|&c| vocab.contains_key(&c)).collect()
filter_known(text, vocab) ==
    LET known(c) == c \in DOMAIN vocab
    IN SelectSeq(text, known)

\* phoneme characters: two of the table and one outside it
PhonemeChars == {"a", "'", "~"}
PhonemeStrings == SeqsUpTo(PhonemeChars, MaxPhonemes)

BuildVocab ==
    /\ pc = "vocab"
    /\ Len(vocabs) < MaxBuilds
    /\ \E order \in IterationOrders :
          vocabs' = Append(vocabs, get_vocab(order))
    /\ UNCHANGED <<pc, ttsVars, mainVars, poolVars, fileVars, phonemes,
                   filtered, shifted>>

FilterPhonemes ==
    /\ pc = "vocab"
    /\ vocabs # <<>>
    /\ filtered = <<>>
    /\ filtered' = <<filter_known(phonemes, vocabs[1])>>
    /\ UNCHANGED <<pc, ttsVars, mainVars, poolVars, fileVars, vocabs,
                   phonemes, shifted>>

InitVocab ==
    /\ pc = "vocab"
    /\ phonemes \in PhonemeStrings
    /\ vocabs = <<>> /\ filtered = <<>> /\ shifted = NoShift
    /\ voices = NoFile /\ styles = EmptyTable /\ style_name = <<>>
    /\ mixed = NoResult
    /\ PlanIdle /\ ReqIdle /\ OutIdle /\ MainIdle /\ PoolIdle /\ FileIdle

NextVocab == BuildVocab \/ FilterPhonemes

SpecVocab == InitVocab /\ [][NextVocab]_vars

----------------------------------------------------------------------------
(* Statements about main and the server startup *)

\* C11: in the text, file and stream modes exactly one instance is
\* constructed whatever --instances is; in the openai mode none is
\* constructed before the branch is entered, and the server is created
\* with exactly `instances` instances, each constructed with `instances`
\* as its argument.
C11_InstancesPerMode ==
    /\ pc = "main" => tts_instances = <<>>
    /\ mode # "openai" =>
          /\ Len(tts_instances) <= 1
          /\ pc = "mode_body" => Len(tts_instances) = 1
          /\ \A i \in DOMAIN tts_instances : tts_instances[i].total = 1
          /\ server = "none"
    /\ mode = "openai" =>
          /\ Len(tts_instances) <= instances
          /\ \A i \in DOMAIN tts_instances :
                tts_instances[i].total = instances
          /\ server # "none" => Len(tts_instances) = instances

C11_Witness ==
    /\ mode = "openai"
    /\ instances = MaxInstances
    /\ server = "created"
    /\ Len(tts_instances) = MaxInstances

\* C12: the listener is bound and serving starts only once all N instances
\* have been constructed; a failed construction aborts the startup for
\* good: the server is never created, bound or serving afterwards.
C12_State ==
    (mode = "openai" /\ server \in {"created", "bound", "serving"}) =>
        Len(tts_instances) = instances

C12_Step ==
    /\ server' # server => Len(tts_instances) = instances
    /\ pc = "panicked" => (pc' = "panicked" /\ server' = "none")

C12_ServeAfterAllInstances == []C12_State /\ [][C12_Step]_vars

C12_Witness ==
    /\ mode = "openai"
    /\ instances >= 2
    /\ pc = "panicked"
    /\ Len(tts_instances) = instances - 1
    /\ server = "none"

Max(a, b) == IF a >= b THEN a ELSE b

\* C14: on the CPU path an instance constructed for a pool of N instances
\* on a host with T compute threads is configured with max(2, T div N)
\* threads.
C14_ThreadsPartitioned ==
    \A i \in DOMAIN tts_instances :
        LET inst == tts_instances[i]
        IN inst.session.provider = "cpu" =>
              inst.session.intra_threads =
                  Max(2, host_threads \div inst.total)

----------------------------------------------------------------------------
(* Statements about the inference pool *)

Running(i) == {r \in DOMAIN req : req[r].state = "running" /\ req[r].inst = i}
Assigned(i) ==
    {r \in DOMAIN req :
        req[r].state \in {"assigned", "running"} /\ req[r].inst = i}

\* C13: each request is assigned to exactly one instance, an instance
\* serves at most one request and runs at most one inference call at a
\* time, so at most N calls are in progress, and the audio a request gets
\* is the audio of its own text.
C13_PoolExclusive ==
    /\ \A i \in DOMAIN owner :
          /\ Cardinality(Running(i)) <= 1
          /\ Cardinality(Assigned(i)) <= 1
          /\ owner[i].req # 0 => Assigned(i) = {owner[i].req}
    /\ Cardinality({r \in DOMAIN req : req[r].state = "running"})
          <= instances
    /\ \A r \in DOMAIN req :
          /\ req[r].state \in {"assigned", "running"} =>
                /\ req[r].inst \in DOMAIN owner
                /\ owner[req[r].inst] = [req |-> r, text |-> req[r].text]
          /\ req[r].state = "done" =>
                req[r].audio = engine_audio(req[r].text)

\* two instances each run a call, for requests with different texts,
\* while a third request waits for an instance
C13_Witness ==
    /\ instances >= 2
    /\ \A i \in DOMAIN owner : Running(i) # {}
    /\ \E r \in DOMAIN req : req[r].state = "waiting"
    /\ \E r, q \in DOMAIN req :
          /\ req[r].state = "running"
          /\ req[q].state = "running"
          /\ req[q].text # req[r].text

----------------------------------------------------------------------------
(* Statements about the pool handed to the server *)

\* C21: whenever the HTTP server is created, the list of instances handed
\* to it is non-empty, for every accepted value of --instances.
C21_ServerPoolNonEmpty ==
    (mode = "openai" /\ server # "none") => Len(tts_instances) >= 1

----------------------------------------------------------------------------
(* Statements about the samples: the filter, the assembly, the file *)

\* C15: with a phase shift of 0 the right channel of a stereo file equals
\* the left one, and the filter applied with a shift of 0 yields that same
\* right channel, for every buffer.
C15_ZeroShiftPathsAgree ==
    (shifted.done /\ shifted.k = 0) =>
        /\ shifted.right = final_audio
        /\ shifted.out = shifted.right

RECURSIVE concat_outs(_)
concat_outs(calls) ==
    IF calls = <<>> THEN <<>>
    ELSE Head(calls).out \o concat_outs(Tail(calls))

RECURSIVE sum_lens(_)
sum_lens(calls) ==
    IF calls = <<>> THEN 0 ELSE Len(Head(calls).out) + sum_lens(Tail(calls))

\* C16: on success tts_raw_audio returns the engine's per-chunk buffers
\* concatenated in chunk order, nothing added, dropped or reordered; tts()
\* writes these N samples as they are in mono, and as N frames whose left
\* sample is the original in stereo.
C16_AudioIsConcatenation ==
    /\ (pc \in AfterRaw /\ ret.ok) =>
          /\ Len(engineCalls) = Len(chunks)
          /\ \A i \in DOMAIN engineCalls : engineCalls[i].chunk = i
          /\ ret.val = concat_outs(engineCalls)
          /\ Len(ret.val) = sum_lens(engineCalls)
    /\ file.finalized =>
          LET N == Len(ret.val)
          IN /\ file.channels = 1 => file.samples = ret.val
             /\ file.channels = 2 =>
                   /\ Len(file.samples) = 2 * N
                   /\ \A i \in 1 .. N : file.samples[2 * i - 1] = ret.val[i]

C16_Witness ==
    /\ file.finalized
    /\ file.channels = 2
    /\ Len(engineCalls) = 2
    /\ engineCalls[1].out = <<2, 3>>
    /\ engineCalls[2].out = <<1>>
    /\ ret.val = <<2, 3, 1>>
    /\ Len(file.samples) = 6

----------------------------------------------------------------------------
(* Statements about the tokens handed to the engine *)

\* C19: every token row tts_raw_audio hands to the engine, the prepended
\* initial_silence tokens included, is at most 512 tokens long.
C19_TokensWithinEngineLimit ==
    \A i \in DOMAIN engineCalls : engineCalls[i].tokens <= EngineLimit

----------------------------------------------------------------------------
(* Statements about the symbol table *)

is_bijection(table) ==
    /\ DOMAIN table = SymbolChars
    /\ \A c \in SymbolChars :
          /\ table[c] \in 0 .. Len(symbols) - 1
          /\ symbols[table[c] + 1] = c
    /\ \A c, e \in SymbolChars : c # e => table[c] # table[e]

\* C17: the symbol table gives every character of the concatenation one
\* ID, distinct characters distinct IDs, and the same ID each time it is
\* built, also for a character that occurs more than once; filtering
\* drops the characters outside the table and nothing else.
C17_SymbolTableFixed ==
    /\ \A b \in DOMAIN vocabs : is_bijection(vocabs[b])
    /\ \A b, d \in DOMAIN vocabs :
          \A c \in SymbolChars : vocabs[b][c] = vocabs[d][c]
    /\ filtered # <<>> =>
          LET in_symbols(c) == c \in SymbolChars
          IN filtered[1] = SelectSeq(phonemes, in_symbols)

----------------------------------------------------------------------------
(* Statements about stream mode *)

EventsOf(op) == {i \in 1 .. Len(events) : events[i].op = op}

count(op, n) == Cardinality({i \in EventsOf(op) : events[i].line = n})

\* line n has been dealt with: a later line was read, or the loop is back
\* at the read or has ended at the end of the input
finished(n) == n < li \/ (n = li /\ pc \in {"read", "exit_ok"})

\* a line of whitespace only
blank_line(l) == \A i \in 1 .. Len(l) : l[i] = " "

is_prefix(s, t) == Len(s) <= Len(t) /\ SubSeq(t, 1, Len(s)) = s

\* C9: one header, written and flushed before any line is read and never
\* written again; one block per non-blank line whose synthesis succeeded,
\* none for any other line; every block is flushed before the next read;
\* blocks appear in the order of the lines.
C9_StreamOutput ==
    /\ \A i \in EventsOf("header") : i = 1
    /\ \A i \in EventsOf("read") :
           /\ i >= 3
           /\ events[1].op = "header"
           /\ events[2].op = "flush"
    /\ \A i \in EventsOf("block") :
           /\ events[i - 1] = Event("read", events[i].line, <<>>)
           /\ ~blank_line(input[events[i].line])
           /\ IF i = Len(events) THEN pc = "flush"
              ELSE events[i + 1].op \in {"flush", "io_error"}
           /\ \A j \in EventsOf("block") :
                  i < j => events[i].line < events[j].line
    /\ \A n \in 1 .. li :
           /\ count("block", n) <= 1
           /\ blank_line(input[n]) => count("block", n) = 0
           /\ (finished(n) /\ ~blank_line(input[n])) =>
                  count("block", n) + count("eprint", n) = 1
    /\ pc = "flush" =>
           (ret.ok /\ events[Len(events)] = Event("block", li, ret.val))
    /\ (li >= 1 /\ finished(li) /\ ~blank_line(input[li])) =>
           (ret.ok <=> count("block", li) = 1)

\* two lines read, two blocks written, the input at its end
C9_Witness ==
    /\ pc = "exit_ok"
    /\ Len(events) = 8
    /\ Cardinality(EventsOf("block")) = 2
    /\ events[4].audio # events[7].audio

\* a failed line writes no block and is reported; the loop leaves with an
\* error only on an I/O error and with success only at the end of the input
C10_State ==
    /\ \A i \in EventsOf("eprint") :
           /\ events[i - 1] = Event("read", events[i].line, <<>>)
           /\ count("block", events[i].line) = 0
           /\ count("eprint", events[i].line) = 1
           /\ i = Len(events) => (pc \in {"read", "exit_ok"} /\ ~ret.ok)
    /\ (li >= 1 /\ finished(li) /\ ~blank_line(input[li]) /\ ~ret.ok) =>
           count("eprint", li) = 1
    /\ pc = "exit_err" => events[Len(events)].op = "io_error"
    /\ pc = "exit_ok" => li = Len(input)

\* what was delivered stays delivered, and at the end of the input the loop
\* ends (with success unless the read itself fails)
C10_Step ==
    /\ is_prefix(events, events')
    /\ (pc = "read" /\ li = Len(input)) => pc' \in {"exit_ok", "exit_err"}
    /\ (pc = "returned" /\ ~ret.ok) => (pc' = "read" /\ li' = li)

\* C10: a line whose synthesis fails writes nothing to the sink, the error
\* is reported, the loop goes on with the next line, earlier output stays
\* as delivered, and the loop ends with success at the end of the input.
C10_FailedLineSkipped == []C10_State /\ [][C10_Step]_vars

\* the first line failed and was reported, the second was written and
\* flushed, and the loop ended with success
C10_Witness ==
    /\ pc = "exit_ok"
    /\ Len(events) = 7
    /\ events[4] = Event("eprint", 1, <<>>)
    /\ events[6].op = "block" /\ events[6].line = 2
    /\ events[7].op = "flush"

----------------------------------------------------------------------------
(* Statements about file mode *)

\* the path of the n-th line of the file (n from 1, its index is n - 1)
path_of(n) == replace_line(save_path_format, to_string(n - 1))

InRequest ==
    {"raw_start", "resolve", "loop", "returned", "create", "write"}

\* C18: in file mode the lines are taken in file order; a blank line has
\* no request and no file; the non-blank line of index i is written to the
\* format with {line} replaced by i; the first line that fails ends the
\* run: no later line is taken, and the files on disk stay.
C18_State ==
    mode = "file" =>
      /\ \A p \in DOMAIN disk :
            LET w == disk[p].writer
            IN /\ w \in 1 .. li
               /\ ~blank_line(input[w])
               /\ p = path_of(w)
      /\ \A n \in 1 .. li - 1 :
            ~blank_line(input[n]) =>
               /\ path_of(n) \in DOMAIN disk
               /\ disk[path_of(n)].writer = n =>
                     disk[path_of(n)].file.finalized
      /\ pc \in InRequest =>
            /\ li >= 1
            /\ ~blank_line(input[li])
            /\ txt = trim(input[li])
            /\ save_path = path_of(li)
      /\ (pc = "file_loop" /\ li >= 1 /\ ~blank_line(input[li])) =>
            /\ ret.ok
            /\ disk[path_of(li)] = [writer |-> li, file |-> file]
            /\ file.finalized
            /\ Len(file.samples) = file.channels * Len(ret.val)
      /\ pc = "exit_ok" => li = Len(input)

C18_Step ==
    mode = "file" =>
      /\ li' \in {li, li + 1}
      /\ li' = li + 1 => pc = "file_loop"
      /\ pc = "exit_err" => (pc' = pc /\ li' = li /\ disk' = disk)
      /\ (pc' = "exit_err" /\ pc = "returned") => disk' = disk
      /\ \A p \in DOMAIN disk :
            /\ p \in DOMAIN disk'
            /\ p # save_path => disk'[p] = disk[p]

C18_FileMode == []C18_State /\ [][C18_Step]_vars

\* a blank first line, then a line written to the path numbered 1
C18_Witness ==
    /\ mode = "file"
    /\ pc = "exit_ok"
    /\ Len(input) = 2
    /\ blank_line(input[1])
    /\ save_path_format = <<"o", "{line}">>
    /\ DOMAIN disk = {<<"o", "1">>}
    /\ disk[<<"o", "1">>].file.finalized
    /\ disk[<<"o", "1">>].file.samples # <<>>

----------------------------------------------------------------------------
(* Statements about the output paths of file mode *)

\* the n-th line of the file has been written by tts()
has_written(n) ==
    /\ path_of(n) \in DOMAIN disk
    /\ disk[path_of(n)].writer = n

\* C22: in file mode two different non-blank lines are never written to
\* the same output path, whatever the output path format is: no line's
\* file is overwritten by a later line of the run.
C22_DistinctOutputPaths ==
    mode = "file" =>
      \A n \in 1 .. li : \A m \in 1 .. n - 1 :
          (~blank_line(input[m]) /\ has_written(n)) =>
              path_of(m) # path_of(n)

----------------------------------------------------------------------------
(* Reading a style specification, for the statements about mix_styles *)

\* the segments of a '+' specification
RECURSIVE join_plus(_)
join_plus(segs) ==
    IF Len(segs) = 1 THEN segs[1]
    ELSE segs[1] \o <<"+">> \o join_plus(Tail(segs))

SegmentLists ==
    {l \in SeqsUpTo(Segments, MaxSegs) : Len(l) >= 2}

seg_name(seg) == Head(split(seg, {"."}))
seg_weight(seg) == SubSeq(seg, Len(seg_name(seg)) + 2, Len(seg))

\* a weight text that is a decimal literal
is_decimal(w) ==
    /\ \A i \in 1 .. Len(w) : w[i] \in Digits \cup {"."}
    /\ \E i \in 1 .. Len(w) : w[i] \in Digits
    /\ Cardinality({i \in 1 .. Len(w) : w[i] = "."}) <= 1

\* a segment that must contribute nothing: it has no '.', or its weight is
\* no number, or it names a style the table does not hold
useless(seg, table) ==
    \/ ~contains(seg, ".")
    \/ ~is_decimal(seg_weight(seg))
    \/ seg_name(seg) \notin DOMAIN table

\* name.w with w a digit string and the name in the table
plain(seg, table) ==
    /\ contains(seg, ".")
    /\ seg_weight(seg) # <<>> /\ all_digits(seg_weight(seg))
    /\ seg_name(seg) \in DOMAIN table

\* sum over the segments of (w / 10) * table[name][j], in hundredths
RECURSIVE weighted_sum(_, _, _)
weighted_sum(segs, table, j) ==
    IF segs = <<>> THEN 0
    ELSE decimal(seg_weight(Head(segs))) * 10 * table[seg_name(Head(segs))][j]
         + weighted_sum(Tail(segs), table, j)

\* C4: a single unknown name is an error; a '+' specification never is, and
\* a blend made only of segments with an unknown name, without '.', or with
\* a weight that does not parse is the all-zero vector.
C4_MixStylesErrors ==
    pc = "mixed" =>
        /\ (~contains(style_name, "+") /\ style_name \notin DOMAIN styles)
               => ~mixed.ok
        /\ contains(style_name, "+") => mixed.ok
        /\ \A l \in SegmentLists :
               (/\ style_name = join_plus(l)
                /\ \A i \in 1 .. Len(l) : useless(l[i], styles))
               => mixed = Ok(ZeroRow)

\* a blend of an unknown name and an unparsable weight over a loaded table
C4_Witness ==
    /\ pc = "mixed"
    /\ styles # EmptyTable
    /\ style_name = <<"x", ".", "5", "+", "a", ".", "z">>
    /\ mixed = Ok(ZeroRow)

\* C5: for name1.w1+...+namen.wn with every name in the table, position j of
\* the result is the sum of (wi / 10) * table[namei][j], not renormalised,
\* once per segment.
C5_WeightedSum ==
    pc = "mixed" =>
        \A l \in SegmentLists :
            (/\ style_name = join_plus(l)
             /\ \A i \in 1 .. Len(l) : plain(l[i], styles))
            => mixed = Ok([j \in Positions |-> weighted_sum(l, styles, j)])

\* a.4+a.4: the same name twice, weights summing to 0.8
C5_Witness ==
    /\ pc = "mixed"
    /\ style_name = <<"a", ".", "4", "+", "a", ".", "4">>
    /\ mixed.ok
    /\ mixed.val[1] = 80

----------------------------------------------------------------------------
(* Words of a text: maximal runs of characters that are neither whitespace *)
(* nor sentence terminators.                                               *)

words_of(s) ==
    LET nonempty(p) == p # <<>>
    IN SelectSeq(split(s, SentenceEnds \cup {" "}), nonempty)

RECURSIVE chunk_words(_)
chunk_words(cs) ==
    IF cs = <<>> THEN <<>> ELSE words_of(Head(cs)) \o chunk_words(Tail(cs))

\* C1: the words of the chunks, in list order, are the words of the input in
\* their original order (re-inserted terminators ignored).
C1_OrderPreserved ==
    pc = "planned" => chunk_words(chunks) = words_of(txt)

\* C2: every chunk is within the budget as the planner's probe measures it,
\* unless it consists of one single whitespace-delimited word.
C2_ChunksWithinBudget ==
    pc = "planned" =>
        \A i \in 1 .. Len(chunks) :
            \/ token_count(chunks[i]) <= max_tokens
            \/ Len(split_whitespace(chunks[i])) = 1

\* a run of the word-packing path: it emitted a multi-word chunk that fills
\* the budget exactly (no terminator: only word packing emits such a chunk)
\* and a single word that alone exceeds the budget
C2_Witness ==
    /\ pc = "planned"
    /\ \E i \in 1 .. Len(chunks) :
          /\ Len(split_whitespace(chunks[i])) > 1
          /\ chunks[i][Len(chunks[i])] # "."
          /\ token_count(chunks[i]) = max_tokens
    /\ \E i \in 1 .. Len(chunks) :
          /\ Len(split_whitespace(chunks[i])) = 1
          /\ token_count(chunks[i]) > max_tokens

=============================================================================
